---- MODULE Spec2Model ----
(***************************************************************************)
(* Model of the pilot logbook's certificate store (logbook/models.py),     *)
(* the certificate expiry notifier (logbook/views/utils.py) and the        *)
(* 90-day currency status of an aircraft.                                  *)
(*                                                                         *)
(* Dates are tuples <<year, month, day>>, instants are <<date, second of   *)
(* day>>.  A nullable column holds None (the empty tuple), a nullable      *)
(* foreign key holds None or <<id>>.                                       *)
(***************************************************************************)
EXTENDS Integers, Sequences, FiniteSets, TLC

VARIABLES
    certificates,   \* the Certificate table: id -> row
    nextId,         \* the next auto-increment primary key
    clock,          \* the wall clock, an instant (UTC)
    outcome,        \* how the last write request ended
    pc,             \* position of the request running check_certificates_expiry
    today,          \* its local variable `today`
    pending,        \* the instances of its queryset not yet iterated
    messages,       \* the messages it has added to the request
    lookup,         \* the last superseded_by read: <<id, result>>
    logentries,     \* the LogEntry table, a set of rows
    aircraft,       \* the Aircraft table: id -> currency_required
    status          \* the last currency_status read: <<registration, now, result>>

vars == <<certificates, nextId, clock, outcome, pc, today, pending, messages,
          lookup, logentries, aircraft, status>>

certVars == <<certificates, nextId, outcome>>
requestVars == <<pc, today, pending, messages>>
flightVars == <<logentries, aircraft, status>>

None == <<>>

Some(x) == <<x>>

-----------------------------------------------------------------------------
(* Bounds of the model. *)

\* certificates ever created under Spec and SpecConc
MaxCerts == 2

\* certificates ever created under SpecChain
MaxChain == 3

\* days the clock advances
MaxDays == 1

\* seconds the clock advances under SpecCurrency
MaxSeconds == 1

\* log entries stored
MaxFlights == 3

-----------------------------------------------------------------------------
(* datetime.date arithmetic *)

IsLeap(y) == (y % 4 = 0 /\ y % 100 # 0) \/ y % 400 = 0

DaysInMonth(y, m) ==
    IF m = 2 THEN (IF IsLeap(y) THEN 29 ELSE 28)
    ELSE IF m \in {4, 6, 9, 11} THEN 30 ELSE 31

DaysBeforeYear(y) ==
    (y - 1) * 365 + ((y - 1) \div 4) - ((y - 1) \div 100) + ((y - 1) \div 400)

RECURSIVE DaysBeforeMonth(_, _)
DaysBeforeMonth(y, m) ==
    IF m = 1 THEN 0 ELSE DaysBeforeMonth(y, m - 1) + DaysInMonth(y, m - 1)

\* date.toordinal(): the proleptic Gregorian ordinal, 0001-01-01 being day 1
toordinal(d) == DaysBeforeYear(d[1]) + DaysBeforeMonth(d[1], d[2]) + d[3]

\* date <= date, date < date
DateLE(a, b) == toordinal(a) <= toordinal(b)

DateLT(a, b) == toordinal(a) < toordinal(b)

\* (a - b).days
DaysBetween(a, b) == toordinal(a) - toordinal(b)

\* date + relativedelta(months=n), 0 <= n <= 12: the month moves on, the year
\* wraps, and the day is clamped to the length of the resulting month
AddMonths(d, n) ==
    LET m0 == d[2] + n
        y  == IF m0 > 12 THEN d[1] + 1 ELSE d[1]
        m  == IF m0 > 12 THEN m0 - 12 ELSE m0
        dd == IF d[3] > DaysInMonth(y, m) THEN DaysInMonth(y, m) ELSE d[3]
    IN  <<y, m, dd>>

\* the day after d
NextDay(d) ==
    IF d[3] < DaysInMonth(d[1], d[2]) THEN <<d[1], d[2], d[3] + 1>>
    ELSE IF d[2] < 12 THEN <<d[1], d[2] + 1, 1>>
    ELSE <<d[1] + 1, 1, 1>>

\* datetime.now(tz=UTC).date()
Today == clock[1]

-----------------------------------------------------------------------------
(* Input domains *)

\* certificate names, in collation order
Names == <<"LAPL", "Medical">>

Range(f) == {f[i] : i \in DOMAIN f}

NameRank(n) == CHOOSE i \in 1..Len(Names) : Names[i] = n

IssueDate == <<2023, 11, 1>>

StartInstant == <<<<2024, 1, 1>>, 0>>

-----------------------------------------------------------------------------
(* The Certificate table *)

Ids == DOMAIN certificates

\* self.supersedes_set: the rows whose supersedes is `id`
supersedes_set(table, id) ==
    {d \in DOMAIN table : table[d].supersedes = Some(id)}

\* CheckConstraint validity_after_issue
validity_after_issue(row) ==
    row.valid_until = None \/ DateLT(row.issue_date, row.valid_until)

\* CheckConstraint supersedes_self: ~Q(id=F("supersedes")); NULL passes
supersedes_self(row) == row.supersedes # Some(row.id)

\* a table without the unique constraint
NoUniqueConstraint(table) == TRUE

\* UniqueConstraint supersedes_unique over the rows with a supersedes
supersedes_unique(table) ==
    \A a, b \in DOMAIN table :
        (a # b /\ table[a].supersedes # None)
            => table[a].supersedes # table[b].supersedes

\* the foreign key: supersedes names a stored row
ForeignKeyHolds(table) ==
    \A a \in DOMAIN table :
        table[a].supersedes = None \/ table[a].supersedes[1] \in DOMAIN table

\* the constraints the database finds broken when row `id` is written
Violations(table, id) ==
    {name \in {"validity_after_issue", "supersedes_self", "supersedes_unique",
               "foreign_key"} :
        \/ name = "validity_after_issue" /\ ~validity_after_issue(table[id])
        \/ name = "supersedes_self" /\ ~supersedes_self(table[id])
        \/ name = "supersedes_unique" /\ ~supersedes_unique(table)
        \/ name = "foreign_key" /\ ~ForeignKeyHolds(table)}

Row(id, name, until, sup) ==
    [id |-> id, name |-> name, issue_date |-> IssueDate,
     valid_until |-> until, supersedes |-> sup]

Put(table, row) ==
    [i \in DOMAIN table \cup {row.id} |-> IF i = row.id THEN row ELSE table[i]]

Remove(table, id) == [i \in DOMAIN table \ {id} |-> table[i]]

\* a write: committed when no constraint is broken, else rolled back with an
\* IntegrityError that names one broken constraint
Write(row) ==
    IF Violations(Put(certificates, row), row.id) = {}
    THEN /\ certificates' = Put(certificates, row)
         /\ outcome' = "ok"
    ELSE /\ certificates' = certificates
         /\ outcome' \in Violations(Put(certificates, row), row.id)

\* admin add view: Certificate(...).save() with a fresh primary key
CreateCertificate(cap, names, untils) ==
    /\ nextId <= cap
    /\ \E name \in names, until \in untils,
          sup \in {None} \cup {Some(i) : i \in Ids} :
            /\ Write(Row(nextId, name, until, sup))
            /\ nextId' = IF outcome' = "ok" THEN nextId + 1 ELSE nextId
    /\ lookup' = None
    /\ UNCHANGED <<clock, requestVars, flightVars>>

\* the rows a change form can turn `row` into by editing one field
Edits(row, names, untils) ==
    {Row(row.id, n, row.valid_until, row.supersedes) : n \in names}
    \cup {Row(row.id, row.name, u, row.supersedes) : u \in untils}
    \cup {Row(row.id, row.name, row.valid_until, sup) :
            sup \in {None} \cup {Some(i) : i \in Ids}}

\* admin change view: save() of a stored certificate, one field edited
UpdateCertificate(names, untils) ==
    /\ \E id \in Ids :
        \E row \in Edits(certificates[id], names, untils) \ {certificates[id]} :
            Write(row)
    /\ lookup' = None
    /\ UNCHANGED <<nextId, clock, requestVars, flightVars>>

\* admin delete view: on_delete=PROTECT refuses while a row references it
DeleteCertificate ==
    /\ \E id \in Ids :
        IF supersedes_set(certificates, id) # {}
        THEN /\ certificates' = certificates
             /\ outcome' = "ProtectedError"
        ELSE /\ certificates' = Remove(certificates, id)
             /\ outcome' = "ok"
    /\ lookup' = None
    /\ UNCHANGED <<nextId, clock, requestVars, flightVars>>

\* the error page of a rejected write is delivered
Respond ==
    /\ outcome # "ok"
    /\ outcome' = "ok"
    /\ UNCHANGED <<certificates, nextId, clock, requestVars, lookup, flightVars>>

\* a day passes
TickDay ==
    /\ DaysBetween(Today, StartInstant[1]) < MaxDays
    /\ clock' = <<NextDay(Today), clock[2]>>
    /\ UNCHANGED <<certVars, requestVars, lookup, flightVars>>

-----------------------------------------------------------------------------
(* Querysets *)

\* the ordering with valid_until ascending
OrderedBeforeAscending(a, b) ==
    LET supBefore == \/ a.supersedes # None /\ b.supersedes = None
                     \/ /\ a.supersedes # None /\ b.supersedes # None
                        /\ a.supersedes[1] > b.supersedes[1]
        untilBefore == /\ a.valid_until # None /\ b.valid_until # None
                       /\ DateLT(a.valid_until, b.valid_until)
    IN  \/ NameRank(a.name) < NameRank(b.name)
        \/ /\ a.name = b.name
           /\ \/ supBefore
              \/ a.supersedes = b.supersedes /\ untilBefore

\* Meta.ordering = ("name", F("supersedes").desc(nulls_last=True), "-valid_until"):
\* row a is sorted strictly before row b.  Where a NULL valid_until sorts in a
\* descending order depends on the database, so it is left unordered.
OrderedBefore(a, b) ==
    LET supBefore == \/ a.supersedes # None /\ b.supersedes = None
                     \/ /\ a.supersedes # None /\ b.supersedes # None
                        /\ a.supersedes[1] > b.supersedes[1]
        untilBefore == /\ a.valid_until # None /\ b.valid_until # None
                       /\ DateLT(b.valid_until, a.valid_until)
    IN  \/ NameRank(a.name) < NameRank(b.name)
        \/ /\ a.name = b.name
           /\ \/ supBefore
              \/ a.supersedes = b.supersedes /\ untilBefore

\* the sequences a database may return for a queryset over `rows`
Orderings(rows) ==
    LET n == Cardinality(rows)
    IN  {s \in [1..n -> rows] :
            /\ \A i, j \in 1..n : i # j => s[i] # s[j]
            /\ \A i, j \in 1..n : i < j => ~OrderedBefore(s[j], s[i])}

\* the foreign key read in the wrong direction: self.supersedes
superseded_by_forward(table, id) == {table[id].supersedes}

\* Certificate.superseded_by: self.supersedes_set.first(); the possible results
superseded_by(table, id) ==
    LET rows == {table[d] : d \in supersedes_set(table, id)}
    IN  IF rows = {} THEN {None} ELSE {Some(s[1].id) : s \in Orderings(rows)}

\* a template or shell reads certificate.superseded_by
ReadSupersededBy ==
    /\ \E id \in Ids : \E r \in superseded_by(certificates, id) : lookup' = <<id, r>>
    /\ UNCHANGED <<certVars, clock, requestVars, flightVars>>

-----------------------------------------------------------------------------
(* logbook/views/utils.py *)

\* a threshold of two months
TwoMonths == 3 - 1

\* relativedelta(months=3)
EXPIRY_WARNING_THRESHOLD == 3

\* valid with the day of expiry itself counted as expired
valid_strict(self, table, day) ==
    /\ self.valid_until = None \/ DateLT(day, self.valid_until)
    /\ Cardinality(supersedes_set(table, self.id)) = 0

\* Certificate.valid of a loaded instance `self`: its own valid_until, the
\* current date, and a COUNT over the rows that supersede it now
valid(self, table, day) ==
    /\ self.valid_until = None \/ DateLE(day, self.valid_until)
    /\ Cardinality(supersedes_set(table, self.id)) = 0

\* the filter without supersedes_set=None
ExpiringIgnoringSuperseded(table, day) ==
    {table[i] : i \in
        {i \in DOMAIN table :
            /\ table[i].valid_until # None
            /\ DateLE(table[i].valid_until, AddMonths(day, EXPIRY_WARNING_THRESHOLD))}}

\* Certificate.objects.filter(valid_until__lte=..., supersedes_set=None)
ExpiringCertificates(table, day) ==
    {table[i] : i \in
        {i \in DOMAIN table :
            /\ table[i].valid_until # None
            /\ DateLE(table[i].valid_until, AddMonths(day, EXPIRY_WARNING_THRESHOLD))
            /\ supersedes_set(table, i) = {}}}

\* the loop body with the subtraction turned round
MessageDaysReversed(self, table, day, today16) ==
    IF ~valid(self, table, day)
    THEN [level |-> "error", certificate |-> self.id,
          valid_until |-> self.valid_until, days |-> None]
    ELSE [level |-> "warning", certificate |-> self.id,
          valid_until |-> self.valid_until,
          days |-> Some(DaysBetween(today16, self.valid_until))]

\* the loop body: messages.error(...) or messages.warning(...)
Message(self, table, day, today16) ==
    IF ~valid(self, table, day)
    THEN [level |-> "error", certificate |-> self.id,
          valid_until |-> self.valid_until, days |-> None]
    ELSE [level |-> "warning", certificate |-> self.id,
          valid_until |-> self.valid_until,
          days |-> Some(DaysBetween(self.valid_until, today16))]

\* the whole view helper, run against one state of the table and the clock
check_certificates_expiry ==
    /\ pc = "idle"
    /\ \E s \in Orderings(ExpiringCertificates(certificates, Today)) :
        messages' = [i \in 1..Len(s) |-> Message(s[i], certificates, Today, Today)]
    /\ today' = Today
    /\ pending' = <<>>
    /\ pc' = "done"
    /\ UNCHANGED <<certVars, clock, lookup, flightVars>>

\* the response is rendered: the messages are consumed
Render ==
    /\ pc = "done"
    /\ pc' = "idle"
    /\ today' = None
    /\ pending' = <<>>
    /\ messages' = <<>>
    /\ UNCHANGED <<certVars, clock, lookup, flightVars>>

\* the same helper step by step: lines 16-22, the queryset is fetched
BeginCheck ==
    /\ pc = "idle"
    /\ today' = Today
    /\ pending' \in Orderings(ExpiringCertificates(certificates, Today))
    /\ messages' = <<>>
    /\ pc' = "loop"
    /\ UNCHANGED <<certVars, clock, lookup, flightVars>>

\* lines 23-37 for the next instance
EvaluateCertificate ==
    /\ pc = "loop"
    /\ pending # <<>>
    /\ messages' = Append(messages, Message(Head(pending), certificates, Today, today))
    /\ pending' = Tail(pending)
    /\ UNCHANGED <<certVars, clock, pc, today, lookup, flightVars>>

\* the loop is over
EndCheck ==
    /\ pc = "loop"
    /\ pending = <<>>
    /\ pc' = "done"
    /\ UNCHANGED <<certVars, clock, today, pending, messages, lookup, flightVars>>

-----------------------------------------------------------------------------
(* Aircraft, LogEntry and the 90-day currency *)

Registrations == {"D-EABC", "D-KXYZ"}

\* landings a user enters for one flight
LandingInputs == {1, 2}

\* arrival times a user enters: one second before StartInstant - 90 days, that
\* instant, StartInstant and one second after it
ArrivalInputs ==
    {<<<<2023, 10, 2>>, 86399>>, <<<<2023, 10, 3>>, 0>>,
     <<<<2024, 1, 1>>, 0>>, <<<<2024, 1, 1>>, 1>>}

\* an instant as <<day ordinal, second of day>>
InstantKey(t) == <<toordinal(t[1]), t[2]>>

\* datetime <= datetime, on keys
KeyLE(a, b) == a[1] < b[1] \/ (a[1] = b[1] /\ a[2] <= b[2])

\* the length of the currency window, in days
CURRENCY_DAYS == 90

\* the landings the currency needs
CURRENCY_LANDINGS == 3

RECURSIVE SumLandings(_)
SumLandings(entries) ==
    IF entries = {} THEN 0
    ELSE LET e == CHOOSE x \in entries : TRUE
         IN  e.landings + SumLandings(entries \ {e})

\* statistics.currency.get_ninety_days_currency over a LogEntry queryset
get_ninety_days_currency(entries, now) ==
    LET start == <<InstantKey(now)[1] - CURRENCY_DAYS, now[2]>>
        counted == {e \in entries :
                        /\ e.time_function = "PIC"
                        /\ KeyLE(start, InstantKey(e.arrival_time))
                        /\ KeyLE(InstantKey(e.arrival_time), InstantKey(now))}
        n == SumLandings(counted)
    IN  [landingsInWindow |-> n, current |-> n >= CURRENCY_LANDINGS]

\* currency_status over the log entries of every aircraft
currency_status_unfiltered(reg, table, entries, now) ==
    IF table[reg]
    THEN Some(get_ninety_days_currency(entries, now))
    ELSE None

\* Aircraft.currency_status
currency_status(reg, table, entries, now) ==
    IF table[reg]
    THEN Some(get_ninety_days_currency({e \in entries : e.aircraft = reg}, now))
    ELSE None

\* admin add view of Aircraft; registration is unique
CreateAircraft ==
    /\ \E reg \in Registrations \ DOMAIN aircraft, required \in BOOLEAN :
        aircraft' = [r \in DOMAIN aircraft \cup {reg} |->
                        IF r = reg THEN required ELSE aircraft[r]]
    /\ status' = None
    /\ UNCHANGED <<certVars, clock, requestVars, lookup, logentries>>

\* admin add view of LogEntry; arrival_time is unique
CreateLogEntry ==
    /\ Cardinality(logentries) < MaxFlights
    /\ \E reg \in DOMAIN aircraft, arrival \in ArrivalInputs,
          n \in LandingInputs, fn \in {"PIC", "DUAL"} :
        /\ \A e \in logentries : e.arrival_time # arrival
        /\ logentries' = logentries \cup
              {[aircraft |-> reg, arrival_time |-> arrival,
                landings |-> n, time_function |-> fn]}
    /\ status' = None
    /\ UNCHANGED <<certVars, clock, requestVars, lookup, aircraft>>

\* admin delete view of LogEntry
DeleteLogEntry ==
    /\ \E e \in logentries : logentries' = logentries \ {e}
    /\ status' = None
    /\ UNCHANGED <<certVars, clock, requestVars, lookup, aircraft>>

\* a second passes
TickSecond ==
    /\ clock[2] - StartInstant[2] < MaxSeconds
    /\ clock' = <<clock[1], clock[2] + 1>>
    /\ status' = None
    /\ UNCHANGED <<certVars, requestVars, lookup, logentries, aircraft>>

\* a page reads aircraft.currency_status
ReadCurrencyStatus ==
    /\ \E reg \in DOMAIN aircraft :
        status' = <<reg, clock, currency_status(reg, aircraft, logentries, clock)>>
    /\ UNCHANGED <<certVars, clock, requestVars, lookup, logentries, aircraft>>

-----------------------------------------------------------------------------

Init ==
    /\ certificates = <<>>
    /\ nextId = 1
    /\ clock = StartInstant
    /\ outcome = "ok"
    /\ pc = "idle"
    /\ today = None
    /\ pending = <<>>
    /\ messages = <<>>
    /\ lookup = None
    /\ logentries = {}
    /\ aircraft = <<>>
    /\ status = None

\* no request is being served and no response is outstanding
Quiet == pc = "idle" /\ outcome = "ok"

\* one request at a time: writes, the clock and the notifier never overlap
NotifyUntils ==
    {None, <<2023, 11, 1>>, <<2023, 12, 1>>, <<2024, 1, 1>>, <<2024, 2, 1>>,
     <<2024, 4, 2>>}

Next ==
    \/ Quiet /\ CreateCertificate(MaxCerts, {Names[1]}, NotifyUntils)
    \/ Quiet /\ UpdateCertificate({Names[1]}, NotifyUntils)
    \/ Quiet /\ DeleteCertificate
    \/ Quiet /\ TickDay
    \/ Quiet /\ check_certificates_expiry
    \/ Render
    \/ Respond

Spec == Init /\ [][Next]_vars

\* the certificate store alone, with longer chains
ChainUntils == {None, <<2023, 11, 1>>, <<2024, 2, 1>>}

NextChain ==
    \/ Quiet /\ CreateCertificate(MaxChain, {Names[1]}, ChainUntils)
    \/ Quiet /\ UpdateCertificate({Names[1]}, ChainUntils)
    \/ Quiet /\ DeleteCertificate
    \/ Quiet /\ ReadSupersededBy
    \/ Respond

SpecChain == Init /\ [][NextChain]_vars

\* the notifier over certificates of several names
OrderUntils == {<<2023, 12, 1>>, <<2024, 2, 1>>}

NextOrder ==
    \/ Quiet /\ CreateCertificate(MaxChain, Range(Names), OrderUntils)
    \/ Quiet /\ UpdateCertificate(Range(Names), OrderUntils)
    \/ Quiet /\ DeleteCertificate
    \/ Quiet /\ check_certificates_expiry
    \/ Render
    \/ Respond

SpecOrder == Init /\ [][NextOrder]_vars

\* the notifier's steps interleaved with other requests and the clock
ConcUntils == {<<2024, 1, 1>>, <<2024, 2, 1>>}

NextConc ==
    \/ CreateCertificate(MaxCerts, {Names[1]}, ConcUntils)
    \/ UpdateCertificate({Names[1]}, ConcUntils)
    \/ DeleteCertificate
    \/ TickDay
    \/ BeginCheck
    \/ EvaluateCertificate
    \/ EndCheck
    \/ Render

SpecConc == Init /\ [][NextConc]_vars

\* the logbook and the currency status
NextCurrency ==
    \/ CreateAircraft
    \/ CreateLogEntry
    \/ DeleteLogEntry
    \/ TickSecond
    \/ ReadCurrencyStatus

SpecCurrency == Init /\ [][NextCurrency]_vars


-----------------------------------------------------------------------------
(* Properties of Certificate.valid and of the expiry notifier (Spec) *)

\* C1: a certificate is valid exactly when no other certificate names it as
\* its supersedes target and its valid_until is absent or not before today;
\* valid_until = today is valid, valid_until = today - 1 day is not, and a
\* superseded certificate is invalid whatever its valid_until.
C1_ValidIff ==
    \A c \in Ids :
        LET row == certificates[c]
            superseded == \E d \in Ids \ {c} : certificates[d].supersedes = Some(c)
            isValid == valid(row, certificates, Today)
        IN  /\ isValid <=>
                (~superseded /\ (row.valid_until = None
                                  \/ toordinal(row.valid_until) >= toordinal(Today)))
            /\ (~superseded /\ row.valid_until = Today) => isValid
            /\ (row.valid_until # None /\ NextDay(row.valid_until) = Today) => ~isValid
            /\ superseded => ~isValid

\* the notifier has run on a certificate expiring today, which it found valid,
\* beside a superseded certificate that is still in date and yet invalid
C1_Witness ==
    /\ pc = "done"
    /\ \E i \in 1..Len(messages) :
        /\ messages[i].level = "warning"
        /\ messages[i].valid_until = Today
    /\ \E c \in Ids :
        /\ supersedes_set(certificates, c) # {}
        /\ certificates[c].valid_until # None
        /\ DateLT(Today, certificates[c].valid_until)
        /\ ~valid(certificates[c], certificates, Today)

\* C2: the certificates that get a notice are exactly those that no other
\* certificate supersedes, that have a valid_until, and whose valid_until is
\* at most today + horizon; each of them gets exactly one notice.
C2_NoticedExactlyEligible ==
    pc = "done" =>
        LET noticed == {messages[i].certificate : i \in 1..Len(messages)}
            eligible ==
                {c \in Ids :
                    /\ ~\E d \in Ids \ {c} : certificates[d].supersedes = Some(c)
                    /\ certificates[c].valid_until # None
                    /\ toordinal(certificates[c].valid_until)
                        <= toordinal(AddMonths(today, EXPIRY_WARNING_THRESHOLD))}
        IN  /\ noticed = eligible
            /\ Len(messages) = Cardinality(eligible)

\* one notice came out while a superseded certificate within the horizon and
\* its superseder were stored
C2_Witness ==
    /\ pc = "done"
    /\ Len(messages) = 1
    /\ \E c \in Ids :
        /\ supersedes_set(certificates, c) # {}
        /\ certificates[c].valid_until # None
        /\ DateLE(certificates[c].valid_until, AddMonths(today, EXPIRY_WARNING_THRESHOLD))

\* C3: a notice is an error exactly when valid_until < today; otherwise it is
\* a warning that reports valid_until - today days, a number >= 0.  With
\* today = 2024-01-01, valid_until = 2024-02-01 gives one warning with 31
\* days and valid_until = 2023-12-01 gives one error.
C3_Severity ==
    pc = "done" =>
        /\ \A i \in 1..Len(messages) :
            LET m == messages[i]
            IN  /\ m.level \in {"error", "warning"}
                /\ m.level = "error" <=> toordinal(m.valid_until) < toordinal(today)
                /\ m.level = "warning" =>
                    /\ m.days = Some(toordinal(m.valid_until) - toordinal(today))
                    /\ m.days[1] >= 0
                    /\ m.valid_until = today => m.days = Some(0)
        /\ today = <<2024, 1, 1>> =>
            \A c \in Ids :
                LET mine == {i \in 1..Len(messages) : messages[i].certificate = c}
                    head == supersedes_set(certificates, c) = {}
                IN  /\ (head /\ certificates[c].valid_until = <<2024, 2, 1>>) =>
                        /\ Cardinality(mine) = 1
                        /\ \A i \in mine : /\ messages[i].level = "warning"
                                           /\ messages[i].days = Some(31)
                    /\ (head /\ certificates[c].valid_until = <<2023, 12, 1>>) =>
                        /\ Cardinality(mine) = 1
                        /\ \A i \in mine : messages[i].level = "error"

\* on 2024-01-01 the notifier reported an expired certificate and one with 31
\* days left
C3_Witness ==
    /\ pc = "done"
    /\ today = <<2024, 1, 1>>
    /\ \E i, j \in 1..Len(messages) :
        /\ messages[i].level = "error"
        /\ messages[i].valid_until = <<2023, 12, 1>>
        /\ messages[j].level = "warning"
        /\ messages[j].days = Some(31)

\* three calendar months after any day of 2023..2026 are 89 to 92 days
ThreeMonthsIs89To92Days ==
    \A y \in 2023..2026, m \in 1..12 :
        \A d \in 1..DaysInMonth(y, m) :
            DaysBetween(AddMonths(<<y, m, d>>, 3), <<y, m, d>>) \in 89..92

\* C9 as stated: a certificate that is not superseded and has a valid_until
\* gets a notice exactly when valid_until - today <= 90 days.
C9_NinetyDays ==
    pc = "done" =>
        \A c \in Ids :
            (supersedes_set(certificates, c) = {} /\ certificates[c].valid_until # None)
                => ((\E i \in 1..Len(messages) : messages[i].certificate = c)
                      <=> DaysBetween(certificates[c].valid_until, today) <= 90)

\* C9 amended: the horizon is three calendar months.  A certificate that is
\* not superseded and has a valid_until gets a notice exactly when valid_until
\* is on or before the day three months after today (same day of the month,
\* clamped to the month's length), which lies 89 to 92 days after today.
C9_ThreeMonths ==
    pc = "done" =>
        LET limit == AddMonths(today, 3)
        IN  /\ limit[3] <= today[3]
            /\ limit[2] = ((today[2] + 2) % 12) + 1
            /\ ThreeMonthsIs89To92Days
            /\ \A c \in Ids :
                (supersedes_set(certificates, c) = {}
                    /\ certificates[c].valid_until # None)
                    => ((\E i \in 1..Len(messages) : messages[i].certificate = c)
                          <=> toordinal(certificates[c].valid_until) <= toordinal(limit))

\* a certificate 91 days from expiry got a notice
C9_Witness ==
    /\ pc = "done"
    /\ \E i \in 1..Len(messages) : DaysBetween(messages[i].valid_until, today) = 91

-----------------------------------------------------------------------------
(* The order of the notices (SpecOrder) *)

\* C8 as stated: every error notice comes before every warning notice, and
\* notices of the same severity are in ascending valid_until order.
C8_ErrorsFirst ==
    pc = "done" =>
        \A i, j \in 1..Len(messages) :
            i < j =>
                /\ ~(messages[i].level = "warning" /\ messages[j].level = "error")
                /\ messages[i].level = messages[j].level
                    => DateLE(messages[i].valid_until, messages[j].valid_until)

\* C8 amended: the notices follow the certificates' default ordering, whatever
\* their severity: ascending name, then descending supersedes id with
\* certificates that supersede nothing last, then descending valid_until.
C8_MetaOrdering ==
    pc = "done" =>
        \A i, j \in 1..Len(messages) :
            i < j =>
                LET a == certificates[messages[i].certificate]
                    b == certificates[messages[j].certificate]
                    key(r) == IF r.supersedes = None THEN 0 ELSE r.supersedes[1]
                IN  /\ NameRank(a.name) <= NameRank(b.name)
                    /\ a.name = b.name => key(a) >= key(b)
                    /\ (a.name = b.name /\ key(a) = key(b))
                        => toordinal(a.valid_until) >= toordinal(b.valid_until)

\* a warning was emitted before an error, and the notice of a certificate
\* that supersedes another before the notice of one that supersedes nothing
C8_Witness ==
    /\ pc = "done"
    /\ \E i, j \in 1..Len(messages) :
        /\ i < j
        /\ messages[i].level = "warning"
        /\ messages[j].level = "error"
    /\ \E i, j \in 1..Len(messages) :
        /\ i < j
        /\ certificates[messages[i].certificate].supersedes # None
        /\ certificates[messages[j].certificate].supersedes = None

-----------------------------------------------------------------------------
(* The supersedes relation (SpecChain) *)

RECURSIVE Follow(_, _, _)
\* the certificate reached from `id` by k supersedes links, as None or <<id>>
Follow(table, id, k) ==
    IF k = 0 THEN Some(id)
    ELSE LET prev == Follow(table, id, k - 1)
         IN  IF prev = None THEN None ELSE table[prev[1]].supersedes

\* no certificate reaches itself along supersedes links
Acyclic(table) ==
    \A c \in DOMAIN table :
        \A k \in 1..Cardinality(DOMAIN table) : Follow(table, c, k) # Some(c)

C6_SupersedesRules ==
    /\ [](/\ \A c \in Ids : certificates[c].supersedes # Some(c)
          /\ \A c, d \in Ids :
                (c # d /\ certificates[c].supersedes # None)
                    => certificates[c].supersedes # certificates[d].supersedes)
    /\ [][outcome' \in {"supersedes_self", "supersedes_unique"}
            => certificates' = certificates]_vars

\* with three certificates stored, one of them superseded, a write that would
\* have given a second certificate the same target has just been rejected
C6_Witness ==
    /\ outcome = "supersedes_unique"
    /\ Cardinality(Ids) = 3
    /\ \E c \in Ids : supersedes_set(certificates, c) # {}

\* C7: the supersedes relation over the stored certificates has no cycle of
\* any length, so every chain has a head that is not superseded.
C7_NoCycle ==
    /\ Acyclic(certificates)
    /\ \A c \in Ids :
        \E k \in 0..Cardinality(Ids) :
            /\ Follow(certificates, c, k) # None
            /\ LET h == Follow(certificates, c, k)[1]
               IN  h \in Ids /\ certificates[h].supersedes = None

-----------------------------------------------------------------------------
(* The notifier beside concurrent requests (SpecConc) *)

\* C10: an error notice ("has expired on valid_until") is emitted only for a
\* certificate whose valid_until is strictly before today, in every
\* interleaving with other requests.
C10_ErrorOnlyIfExpired ==
    \A i \in 1..Len(messages) :
        messages[i].level = "error" => DateLT(messages[i].valid_until, Today)

-----------------------------------------------------------------------------
(* The currency status (SpecCurrency) *)

\* C4: for an aircraft with currency_required, landingsInWindow is the sum of
\* landings over exactly the aircraft's PIC flights that arrived in the closed
\* window [now - 90 days, now] (an arrival at now - 90 days counts, one a
\* second earlier does not, DUAL flights never count), and the status is
\* current exactly when landingsInWindow >= 3.
C4_LandingsInWindow ==
    (status # None /\ aircraft[status[1]]) =>
        LET now == status[2]
            inWindow(t) ==
                /\ \/ toordinal(t[1]) > toordinal(now[1]) - 90
                   \/ toordinal(t[1]) = toordinal(now[1]) - 90 /\ t[2] >= now[2]
                /\ \/ toordinal(t[1]) < toordinal(now[1])
                   \/ toordinal(t[1]) = toordinal(now[1]) /\ t[2] <= now[2]
            counted == {e \in logentries :
                            /\ e.aircraft = status[1]
                            /\ e.time_function = "PIC"
                            /\ inWindow(e.arrival_time)}
            landings == {<<e, k>> \in counted \X (1..2) : k <= e.landings}
        IN  /\ status[3] # None
            /\ status[3][1].landingsInWindow = Cardinality(landings)
            /\ status[3][1].current <=> Cardinality(landings) >= 3
            /\ \A e \in logentries : e.landings \in 1..2

\* an aircraft was found current with three landings, some of them on a
\* flight that arrived exactly 90 days before now, while the log also holds a
\* PIC flight of the aircraft that arrived one second earlier
C4_Witness ==
    /\ status # None
    /\ status[3] # None
    /\ status[3][1].current
    /\ status[3][1].landingsInWindow = 3
    /\ \E e \in logentries :
        /\ e.aircraft = status[1]
        /\ e.time_function = "PIC"
        /\ toordinal(e.arrival_time[1]) = toordinal(status[2][1]) - 90
        /\ e.arrival_time[2] = status[2][2]
    /\ \E e \in logentries :
        /\ e.aircraft = status[1]
        /\ e.time_function = "PIC"
        /\ toordinal(e.arrival_time[1]) = toordinal(status[2][1]) - 91
        /\ e.arrival_time[2] = 86399
        /\ status[2][2] = 0

====
